---- MODULE Spec2Model ----
(***************************************************************************)
(* Model of the Android file transfer server: the ADB service              *)
(* (services/adb_service.py), the local file service                       *)
(* (services/file_service.py), the transfer and listing endpoints          *)
(* (api/files.py, api/devices.py) and the presence WebSocket loop          *)
(* (main.py).                                                              *)
(*                                                                         *)
(* Text is modelled as a sequence of one-character strings, so that        *)
(* str.split, str.strip, str.join, str.lower, int() and the substring      *)
(* test `in` are computed as Python computes them.                         *)
(***************************************************************************)
EXTENDS Integers, Sequences, FiniteSets, TLC

\* ------------------------------------------------------------------ bounds
\* Lines of `ls -la` output handed to the remote lister in one call.
MaxLines == 2
\* Children of the local directory handed to the local lister in one call.
MaxChildren == 3
\* Devices adb.device_list() returns to one enumeration.
MaxDevices == 2

\* ------------------------------------------------------------- Python text
\* Characters of the model's alphabet in code-point order: Python compares
\* strings by code point, and only the relative order matters.
Ascii ==
    << "\n", " ", "-", ".", "/", "0", "1", "2", "3", "4", "5", "6", "7", "8", "9",
       ":", "A", "B", "J", "P", "_", "a", "b", "c", "d", "e", "i", "j", "l",
       "n", "o", "p", "r", "s", "t", "w", "x" >>

Ord(c) == CHOOSE i \in 1..Len(Ascii) : Ascii[i] = c

Digits == << "0", "1", "2", "3", "4", "5", "6", "7", "8", "9" >>

IsDigitChar(c) == \E i \in 1..10 : Digits[i] = c

DigitVal(c) == (CHOOSE i \in 1..10 : Digits[i] = c) - 1

IsSpace(c) == c \in {" ", "\n"}

\* str.lower() on one character.
LowerChar(c) ==
    CASE c = "A" -> "a"
      [] c = "B" -> "b"
      [] c = "J" -> "j"
      [] c = "P" -> "p"
      [] OTHER -> c

\* str.lower()
Lower(s) == [i \in 1..Len(s) |-> LowerChar(s[i])]

\* str.startswith(prefix)
StartsWith(s, p) == Len(s) >= Len(p) /\ SubSeq(s, 1, Len(p)) = p

\* `sub in s`: substring containment.
Contains(s, sub) ==
    \E i \in 1..(Len(s) - Len(sub) + 1) : SubSeq(s, i, i + Len(sub) - 1) = sub

\* The k-th smallest element of a finite set of integers.
Nth(S, k) == CHOOSE i \in S : Cardinality({ j \in S : j < i }) = k - 1

\* str.strip(): leading and trailing whitespace removed.
Strip(s) ==
    LET keep == { i \in 1..Len(s) : ~IsSpace(s[i]) } IN
    IF keep = {} THEN <<>>
    ELSE SubSeq(s, Nth(keep, 1), Nth(keep, Cardinality(keep)))

\* str.split(sep) for a one-character separator: empty fields are kept.
SplitSep(s, sep) ==
    LET at == { i \in 1..Len(s) : s[i] = sep }
        n == Cardinality(at) + 1
        cut(k) == IF k = 0 THEN 0 ELSE IF k = n THEN Len(s) + 1 ELSE Nth(at, k)
    IN [ k \in 1..n |-> SubSeq(s, cut(k - 1) + 1, cut(k) - 1) ]

SplitLines(s) == SplitSep(s, "\n")

\* str.split() with no argument: runs of whitespace separate, no empty field.
Split(s) ==
    LET first == { i \in 1..Len(s) : ~IsSpace(s[i]) /\ (i = 1 \/ IsSpace(s[i - 1])) }
        last == { i \in 1..Len(s) : ~IsSpace(s[i]) /\ (i = Len(s) \/ IsSpace(s[i + 1])) }
    IN [ k \in 1..Cardinality(first) |-> SubSeq(s, Nth(first, k), Nth(last, k)) ]

\* sep.join(parts)
RECURSIVE Join(_, _)
Join(parts, sep) ==
    IF parts = <<>> THEN <<>>
    ELSE IF Len(parts) = 1 THEN parts[1]
    ELSE parts[1] \o sep \o Join(Tail(parts), sep)

\* str.isdigit()
IsDigit(s) == s # <<>> /\ \A i \in 1..Len(s) : IsDigitChar(s[i])

\* int(s) of a string of decimal digits.
RECURSIVE IntOf(_)
IntOf(s) ==
    IF s = <<>> THEN 0 ELSE 10 * IntOf(SubSeq(s, 1, Len(s) - 1)) + DigitVal(s[Len(s)])

\* The decimal text of a natural number, as `ls` prints a size.
RECURSIVE DecimalText(_)
DecimalText(n) ==
    IF n < 10 THEN << Digits[n + 1] >>
    ELSE Append(DecimalText(n \div 10), Digits[(n % 10) + 1])

\* Lexicographic comparison of strings by code point: a < b.
RECURSIVE StrLess(_, _)
StrLess(a, b) ==
    IF b = <<>> THEN FALSE
    ELSE IF a = <<>> THEN TRUE
    ELSE IF Head(a) = Head(b) THEN StrLess(Tail(a), Tail(b))
    ELSE Ord(Head(a)) < Ord(Head(b))

\* ------------------------------------------------------------------ sorted
\* The listing key of both services: (not is_directory, name.lower()).
SortKeyCaseSensitive(x) == << ~x.is_directory, x.name >>

SortKey(x) == << ~x.is_directory, Lower(x.name) >>

\* Tuple comparison of two keys: False < True, then the names.
KeyLess(k1, k2) ==
    \/ (~k1[1] /\ k2[1])
    \/ (k1[1] = k2[1] /\ StrLess(k1[2], k2[2]))

\* sorted(files, key=...) is stable: an element goes after every element
\* whose key is not greater than its own.
RECURSIVE InsertSorted(_, _)
InsertSorted(s, x) ==
    IF s = <<>> THEN << x >>
    ELSE IF KeyLess(SortKey(x), SortKey(Head(s))) THEN << x >> \o s
    ELSE << Head(s) >> \o InsertSorted(Tail(s), x)

RECURSIVE Sorted(_)
Sorted(s) ==
    IF s = <<>> THEN <<>> ELSE InsertSorted(Sorted(SubSeq(s, 1, Len(s) - 1)), s[Len(s)])

\* ------------------------------------------------- services/adb_service.py
\* Token positions of list_files (Python indices are zero-based).
MinParts == 8
SizeIndex == 4
NameIndex == 7

\* os.path.join(path, name)
PathJoin(path, name) ==
    IF name # <<>> /\ Head(name) = "/" THEN name
    ELSE IF path = <<>> \/ path[Len(path)] = "/" THEN path \o name
    ELSE path \o << "/" >> \o name

\* One iteration of the loop of list_files over the lines of the output:
\* the entries the line appends to `files` (none or one).
ParseLineNameFromSize(path, line) ==
    IF line = <<>> \/ StartsWith(line, << "t", "o", "t", "a", "l" >>) THEN <<>>
    ELSE LET parts == Split(line) IN
         IF Len(parts) < MinParts THEN <<>>
         ELSE LET permissions == parts[1]
                  size == IF IsDigit(parts[SizeIndex + 1]) THEN parts[SizeIndex + 1]
                          ELSE << "0" >>
                  name == Join(SubSeq(parts, SizeIndex + 2, Len(parts)), << " " >>)
                  is_directory == StartsWith(permissions, << "d" >>)
              IN IF name \in { << "." >>, << ".", "." >> } THEN <<>>
                 ELSE << [ name |-> name,
                           path |-> PathJoin(path, name),
                           is_directory |-> is_directory,
                           size |-> IF ~is_directory THEN IntOf(size) ELSE 0,
                           permissions |-> permissions,
                           type |-> IF is_directory THEN "directory" ELSE "file" ] >>

ParseLine(path, line) ==
    IF line = <<>> \/ StartsWith(line, << "t", "o", "t", "a", "l" >>) THEN <<>>
    ELSE LET parts == Split(line) IN
         IF Len(parts) < MinParts THEN <<>>
         ELSE LET permissions == parts[1]
                  size == IF IsDigit(parts[SizeIndex + 1]) THEN parts[SizeIndex + 1]
                          ELSE << "0" >>
                  name == Join(SubSeq(parts, NameIndex + 1, Len(parts)), << " " >>)
                  is_directory == StartsWith(permissions, << "d" >>)
              IN IF name \in { << "." >>, << ".", "." >> } THEN <<>>
                 ELSE << [ name |-> name,
                           path |-> PathJoin(path, name),
                           is_directory |-> is_directory,
                           size |-> IF ~is_directory THEN IntOf(size) ELSE 0,
                           permissions |-> permissions,
                           type |-> IF is_directory THEN "directory" ELSE "file" ] >>

RECURSIVE ParseLines(_, _)
ParseLines(path, lines) ==
    IF lines = <<>> THEN <<>>
    ELSE ParseLine(path, Head(lines)) \o ParseLines(path, Tail(lines))

\* The body of the try block of list_files: the list `files` built from
\* the shell output, before it is sorted.
ParseListing(path, output) == ParseLines(path, SplitLines(Strip(output)))

\* ADBService.list_files with a shell failure swallowed into an empty
\* listing.
AdbListFilesSwallow(resolved, path, shell) ==
    IF ~resolved THEN [ kind |-> "ValueError", files |-> <<>>, shells |-> 0 ]
    ELSE IF shell.raises THEN [ kind |-> "ok", files |-> <<>>, shells |-> 1 ]
    ELSE [ kind |-> "ok",
           files |-> Sorted(ParseListing(path, shell.text)),
           shells |-> 1 ]

\* ADBService.list_files(serial, path).  `resolved` is whether get_device
\* returned a handle; `shell` is what device.shell does: it returns the
\* text `shell.text` or raises.  The result records the shell commands
\* issued on the way.
AdbListFiles(resolved, path, shell) ==
    IF ~resolved THEN [ kind |-> "ValueError", files |-> <<>>, shells |-> 0 ]
    ELSE IF shell.raises THEN [ kind |-> "AdbError", files |-> <<>>, shells |-> 1 ]
    ELSE [ kind |-> "ok",
           files |-> Sorted(ParseListing(path, shell.text)),
           shells |-> 1 ]

\* list_android_files(serial, path): the service result and the response
\* the handler makes of it: ValueError -> 404, any other exception -> 500,
\* else the body with the files.
ListAndroidFiles(resolved, path, shell) ==
    LET r == AdbListFiles(resolved, path, shell) IN
    [ kind |-> r.kind, files |-> r.files, shells |-> r.shells,
      http |-> CASE r.kind = "ValueError" ->
                      [ status |-> 404, detail |-> "Device not found", listed |-> FALSE ]
                 [] r.kind = "ok" ->
                      [ status |-> 200, detail |-> "", listed |-> TRUE ]
                 [] OTHER ->
                      [ status |-> 500, detail |-> "Error listing Android files",
                        listed |-> FALSE ] ]

\* ------------------------------------------------ services/file_service.py
\* One iteration of the loop of FileService.list_files over os.listdir:
\* the entries the child appends to `files` (none or one).
LocalEntryKeepHidden(dir, item) ==
    IF ~item.stat_ok THEN <<>>
    ELSE << [ name |-> item.name,
              path |-> PathJoin(dir, item.name),
              is_directory |-> item.is_directory,
              size |-> IF ~item.is_directory THEN item.size ELSE 0,
              modified |-> item.mtime,
              type |-> IF item.is_directory THEN "directory" ELSE "file" ] >>

LocalEntry(dir, item) ==
    IF StartsWith(item.name, << "." >>) THEN <<>>
    ELSE IF ~item.stat_ok THEN <<>>
    ELSE << [ name |-> item.name,
              path |-> PathJoin(dir, item.name),
              is_directory |-> item.is_directory,
              size |-> IF ~item.is_directory THEN item.size ELSE 0,
              modified |-> item.mtime,
              type |-> IF item.is_directory THEN "directory" ELSE "file" ] >>

RECURSIVE LocalEntries(_, _)
LocalEntries(dir, items) ==
    IF items = <<>> THEN <<>>
    ELSE LocalEntry(dir, Head(items)) \o LocalEntries(dir, Tail(items))

\* FileService.list_files(path): validate_path raises ValueError when the
\* path does not exist; otherwise the children os.listdir returns, in the
\* order it returns them, are filtered, described and sorted.
LocalListFiles(exists, dir, items) ==
    IF ~exists THEN [ kind |-> "ValueError", files |-> <<>> ]
    ELSE [ kind |-> "ok", files |-> Sorted(LocalEntries(dir, items)) ]

\* The stdout of the existence test `test -e P && echo 'exists' || echo
\* 'not_exists'` as the device's shell prints it.
TextExists == << "e", "x", "i", "s", "t", "s" >>
TextNotExists == << "n", "o", "t", "_" >> \o TextExists

TestOutput(present) == (IF present THEN TextExists ELSE TextNotExists) \o << "\n" >>

\* The interpretation of that stdout by file_exists.
MarkerFound(result) == Contains(Strip(result), TextExists)

\* ADBService.file_exists(serial, path): False without a device handle,
\* False when the shell command raises, else the marker test.
FileExists(resolved, shell) ==
    IF ~resolved THEN FALSE
    ELSE IF shell.raises THEN FALSE
    ELSE MarkerFound(shell.text)

\* ADBService.get_devices(): `enum` is what adb.device_list() does (it
\* raises, or returns the devices in `enum.devices`); a device's `prop_ok`
\* is whether reading its properties succeeds.
Unknown == "Unknown"

DeviceInfoOrRaise(d) ==
    IF d.prop_ok
    THEN << [ serial |-> d.serial,
              model |-> IF d.model = "" THEN Unknown ELSE d.model,
              manufacturer |-> d.manufacturer,
              android_version |-> d.release,
              state |-> "device" ] >>
    ELSE << [ serial |-> "raise" ] >>

DeviceInfo(d) ==
    IF d.prop_ok
    THEN << [ serial |-> d.serial,
              model |-> IF d.model = "" THEN Unknown ELSE d.model,
              manufacturer |-> d.manufacturer,
              android_version |-> d.release,
              state |-> "device" ] >>
    ELSE << [ serial |-> d.serial,
              model |-> Unknown,
              manufacturer |-> Unknown,
              android_version |-> Unknown,
              state |-> "device" ] >>

RECURSIVE DeviceInfos(_)
DeviceInfos(ds) ==
    IF ds = <<>> THEN <<>> ELSE DeviceInfo(Head(ds)) \o DeviceInfos(Tail(ds))

\* An exception that escapes the per-device try reaches the outer except,
\* which returns the empty list.
GetDevices(enum) ==
    IF enum.raises THEN <<>>
    ELSE LET infos == DeviceInfos(enum.devices) IN
         IF \E i \in 1..Len(infos) : infos[i].serial = "raise" THEN <<>> ELSE infos

\* ------------------------------------------------------- listing: inputs
\* What the device's `ls -la` prints for one directory entry: permissions,
\* link count, owner, group, size, date tokens, name tokens.
PermDir == << "d", "r", "w", "x" >>
PermFile == << "-", "r", "w", "-" >>
TokRoot == << "r", "o", "o", "t" >>
TokTotal == << "t", "o", "t", "a", "l" >>

\* "2024-01-01 00:00": a date of two tokens.
DateIso == << << "2", "0", "2", "4", "-", "0", "1", "-", "0", "1" >>,
              << "0", "0", ":", "0", "0" >> >>
\* "Jan 1 00:00": a date of three tokens.
DateMonth == << << "J", "a", "n" >>, << "1" >>, << "0", "0", ":", "0", "0" >> >>

NameDot == << << "." >> >>
NameDotDot == << << ".", "." >> >>
NamePics == << << "P", "i", "c", "s" >> >>
NameAB == << << "a" >>, << "b" >> >>

NoLine == [ kind |-> "blank", perm |-> <<>>, size |-> 0, date |-> <<>>, name |-> <<>> ]

EntryLines ==
    [ kind : {"entry"}, perm : {PermDir, PermFile}, size : {12, 4096},
      date : {DateIso, DateMonth}, name : {NameDot, NameDotDot, NamePics, NameAB} ]

LineSpecs == EntryLines \cup { NoLine, [NoLine EXCEPT !.kind = "total"] }

RenderLine(l) ==
    CASE l.kind = "blank" -> <<>>
      [] l.kind = "total" -> TokTotal \o << " ", "4", "8" >>
      [] OTHER ->
           Join(<< l.perm, << "2" >>, TokRoot, TokRoot, DecimalText(l.size) >>
                    \o l.date \o l.name, << " " >>)

RECURSIVE RenderLines(_)
RenderLines(ls) ==
    IF ls = <<>> THEN <<>> ELSE RenderLine(Head(ls)) \o << "\n" >> \o RenderLines(Tail(ls))

SeqsUpTo(S, n) == UNION { [1..k -> S] : k \in 0..n }

RemotePath == << "/", "s", "d" >>
LocalDir == << "/", "r" >>

LocalNames == { << "a" >>, << "B" >>, << "b" >>, << "A", "c" >>, << ".", "c" >> }

Items == [ name : LocalNames, is_directory : BOOLEAN, stat_ok : BOOLEAN,
           size : {5}, mtime : {1} ]

\* os.listdir returns each child once, in any order.
ListDirs ==
    { c \in SeqsUpTo(Items, MaxChildren) :
        \A i, j \in 1..Len(c) : i # j => c[i].name # c[j].name }

\* What adb.device_list() can return to one call of get_devices.
AllSerials == { "s1", "s2", "s3" }

DeviceObjects ==
    [ serial : AllSerials, prop_ok : BOOLEAN, model : {"", "Pixel"},
      manufacturer : {"Google"}, release : {"14"} ]

DeviceLists ==
    { c \in SeqsUpTo(DeviceObjects, MaxDevices) :
        \A i, j \in 1..Len(c) : i # j => c[i].serial # c[j].serial }

\* ------------------------------------------------------------------ state
VARIABLES
    lcall,      \* the listing call last made: its arguments and environment
    lret,       \* what that call returned or raised
    attached,   \* serials the bridge resolves and enumerates at this moment
    localFs,    \* the local filesystem: path -> "none" | "file" | "dir"
    remoteFs,   \* the paths that exist on the device
    loop,       \* "free", or the handler blocking the event-loop thread
    req,        \* the transfer request being handled, with what it observed
    tpc,        \* where the transfer handler is: idle, pushing, pulling, done
    calls,      \* transport and disk calls the transfer request has made
    resp,       \* the HTTP response of the transfer request
    active_connections,  \* ConnectionManager.active_connections
    ws,         \* per listener: where its websocket_endpoint task is, and its locals
    client,     \* per listener: the peer's end of the socket: none, open, gone
    inbox,      \* per listener: the message delivered since its task last woke
    devReq,     \* GET /api/devices: none, pending, served
    devResp     \* the body of its response

lvars == << lcall, lret >>

tvars == << attached, localFs, remoteFs, loop, req, tpc, calls, resp >>

pvars == << active_connections, ws, client, inbox, devReq, devResp >>

NoCall == [ op |-> "none" ]

ListInit == lcall = NoCall /\ lret = [ kind |-> "none" ]

\* GET /api/android/files: list_android_files calls
\* adb_service.list_files(serial, path) against a device printing `lines`.
CallListRemote ==
    /\ lcall = NoCall
    /\ \E resolved \in BOOLEAN, raises \in BOOLEAN, lines \in SeqsUpTo(LineSpecs, MaxLines) :
         /\ (~resolved \/ raises) => lines = <<>>
         /\ lcall' = [ op |-> "remote", resolved |-> resolved, raises |-> raises,
                       lines |-> lines ]
         /\ lret' = ListAndroidFiles(resolved, RemotePath,
                                     [ raises |-> raises, text |-> RenderLines(lines) ])

\* file_service.list_files(path) of a directory whose children are `items`.
CallListLocal ==
    /\ lcall = NoCall
    /\ \E exists \in BOOLEAN, items \in ListDirs :
         /\ ~exists => items = <<>>
         /\ lcall' = [ op |-> "local", exists |-> exists, items |-> items ]
         /\ lret' = LocalListFiles(exists, LocalDir, items)

\* adb_service.get_devices() against a bridge that raises or enumerates
\* `devices`.
CallGetDevices ==
    /\ lcall = NoCall
    /\ \E raises \in BOOLEAN, devices \in DeviceLists :
         /\ raises => devices = <<>>
         /\ lcall' = [ op |-> "devices",
                       enum |-> [ raises |-> raises, devices |-> devices ] ]
         /\ lret' = [ kind |-> "ok",
                      devices |-> GetDevices([ raises |-> raises, devices |-> devices ]) ]

\* The caller has consumed the result; the services keep no state.
ListReturn ==
    /\ lcall # NoCall
    /\ lcall' = NoCall
    /\ lret' = [ kind |-> "none" ]

\* ------------------------------------------------------------ api/files.py
Serials == { "s1" }

\* TransferRequest.device_serial is Optional[str]: absent, empty or given.
NoSerial == "<None>"
RequestSerials == { NoSerial, "" } \cup Serials

LocalPaths == { "d", "d/f", "n", "n/g", "x" }
LocalSources == { "d", "d/f", "n/g" }
LocalDestinations == { "n/g", "d/f", "x" }
RemotePaths == { "/sd/a", "/sd/b" }

\* os.path.dirname
Dirname(p) ==
    CASE p = "d/f" -> "d"
      [] p = "n/g" -> "n"
      [] OTHER -> ""

NoReq == [ dir |-> "none" ]
NoResp == [ status |-> 0, detail |-> "", cause |-> "" ]
NoCalls == [ resolve |-> 0, shell |-> 0, push |-> 0, pull |-> 0, makedirs |-> 0 ]

\* The bodies a client can post to the two transfer endpoints.
ToRemoteRequests == [ serial : RequestSerials, src : LocalSources, dst : RemotePaths ]
ToLocalRequests == [ serial : RequestSerials, src : RemotePaths, dst : LocalDestinations ]

\* raise HTTPException(status_code, detail); `cause` is str(e) of a wrapped
\* exception.
Http(status, detail, cause) == [ status |-> status, detail |-> detail, cause |-> cause ]

Success == [ status |-> 200, detail |-> "File transferred successfully", cause |-> "" ]

\* `request.device_serial is None`
SerialIsAbsent(serial) == serial = NoSerial

\* `not request.device_serial`
SerialMissing(serial) == serial \in { NoSerial, "" }

TransferInit ==
    /\ attached = { "s1" }
    /\ localFs = [ p \in LocalPaths |->
                     IF p = "d" THEN "dir" ELSE IF p = "d/f" THEN "file" ELSE "none" ]
    /\ remoteFs = { "/sd/a" }
    /\ loop = "free"
    /\ req = NoReq
    /\ tpc = "idle"
    /\ calls = NoCalls
    /\ resp = NoResp

\* The checks of transfer_mac_to_android before push_file: the response
\* they raise, or NoResp when the request passes.
ValidateToRemoteExistsOnly(serial, state) ==
    IF SerialMissing(serial) THEN Http(400, "Device serial is required", "")
    ELSE IF state = "none" THEN Http(404, "Source file not found", "")
    ELSE NoResp

ValidateToRemote(serial, state) ==
    IF SerialMissing(serial) THEN Http(400, "Device serial is required", "")
    ELSE IF state = "none" THEN Http(404, "Source file not found", "")
    ELSE IF state = "dir" THEN Http(400, "Directory transfer not supported yet", "")
    ELSE NoResp

\* The handler has raised or returned before any blocking transfer call.
Responds(r, c, q) ==
    /\ resp' = r
    /\ calls' = c
    /\ req' = q
    /\ tpc' = "done"
    /\ UNCHANGED << loop, remoteFs >>

\* POST /transfer/mac-to-android up to the call of device.sync.push, which
\* blocks the thread that runs the handler.
TransferMacToAndroid(requests) ==
    /\ tpc = "idle" /\ loop = "free"
    /\ \E r \in requests :
         LET serial == r.serial
             src == r.src
             dst == r.dst
             q == [ dir |-> "toRemote", serial |-> serial, src |-> src, dst |-> dst,
                    src_state |-> localFs[src], resolved |-> serial \in attached,
                    shell_raised |-> FALSE, shell_said |-> "", exists_ret |-> FALSE,
                    local0 |-> localFs, remote0 |-> remoteFs ]
         IN /\ UNCHANGED << attached, localFs >>
            /\ IF ValidateToRemote(serial, localFs[src]) # NoResp
               THEN Responds(ValidateToRemote(serial, localFs[src]), NoCalls, q)
               ELSE IF serial \notin attached
               THEN Responds(Http(500, "Error transferring file", "Device not found"),
                             [ NoCalls EXCEPT !.resolve = 1 ], q)
               ELSE /\ req' = q
                    /\ calls' = [ NoCalls EXCEPT !.resolve = 1, !.push = 1 ]
                    /\ tpc' = "pushing"
                    /\ loop' = "transfer"
                    /\ UNCHANGED << resp, remoteFs >>
    /\ UNCHANGED << lvars, pvars >>

\* device.sync.push returns, or raises and is called once more.
PushReturnsRetrying ==
    /\ tpc = "pushing"
    /\ \E ok \in BOOLEAN :
         IF ok
         THEN /\ remoteFs' = remoteFs \cup { req.dst }
              /\ resp' = Success
              /\ tpc' = "done"
              /\ loop' = "free"
              /\ UNCHANGED calls
         ELSE /\ calls.push < 2
              /\ calls' = [ calls EXCEPT !.push = calls.push + 1 ]
              /\ UNCHANGED << remoteFs, resp, tpc, loop >>
    /\ UNCHANGED << attached, localFs, req >>
    /\ UNCHANGED << lvars, pvars >>

\* device.sync.push returns or raises; a failed push may leave a partial
\* file behind.
PushReturns ==
    /\ tpc = "pushing"
    /\ \E ok \in BOOLEAN, written \in BOOLEAN :
         /\ ok => written
         /\ remoteFs' = IF written THEN remoteFs \cup { req.dst } ELSE remoteFs
         /\ resp' = IF ok THEN Success
                    ELSE Http(500, "Error transferring file", "AdbError")
    /\ tpc' = "done"
    /\ loop' = "free"
    /\ UNCHANGED << attached, localFs, req, calls >>
    /\ UNCHANGED << lvars, pvars >>

\* POST /transfer/android-to-mac up to the call of device.sync.pull.  The
\* device may be unplugged between file_exists and pull_file (`att2`).
TransferAndroidToMac(requests) ==
    /\ tpc = "idle" /\ loop = "free"
    /\ \E r \in requests, shellRaises \in BOOLEAN, att2 \in { attached, attached \ Serials } :
         LET serial == r.serial
             src == r.src
             dst == r.dst
             resolved == serial \in attached
             ran == resolved /\ ~shellRaises
             text == TestOutput(src \in remoteFs)
             found == FileExists(resolved, [ raises |-> shellRaises, text |-> text ])
             q == [ dir |-> "toLocal", serial |-> serial, src |-> src, dst |-> dst,
                    src_state |-> IF src \in remoteFs THEN "file" ELSE "none",
                    resolved |-> resolved,
                    shell_raised |-> resolved /\ shellRaises,
                    shell_said |-> IF ~ran THEN ""
                                   ELSE IF src \in remoteFs THEN "exists" ELSE "not_exists",
                    exists_ret |-> found,
                    local0 |-> localFs, remote0 |-> remoteFs ]
             c1 == [ NoCalls EXCEPT !.resolve = 1, !.shell = IF resolved THEN 1 ELSE 0 ]
             c2 == [ c1 EXCEPT !.resolve = 2 ]
             c3 == [ c2 EXCEPT !.makedirs = 1 ]
             parent == Dirname(dst)
         IN IF SerialMissing(serial)
            THEN /\ att2 = attached /\ ~shellRaises
                 /\ Responds(Http(400, "Device serial is required", ""), NoCalls, q)
                 /\ UNCHANGED << attached, localFs >>
            ELSE IF ~found
            THEN /\ att2 = attached
                 /\ shellRaises => resolved
                 /\ Responds(Http(404, "Source file not found on device", ""), c1, q)
                 /\ UNCHANGED << attached, localFs >>
            ELSE IF serial \notin att2
            THEN /\ attached' = att2
                 /\ Responds(Http(500, "Error transferring file", "Device not found"),
                             c2, q)
                 /\ UNCHANGED localFs
            ELSE IF parent = ""
            THEN /\ attached' = att2
                 /\ Responds(Http(500, "Error transferring file", "FileNotFoundError"),
                             c3, q)
                 /\ UNCHANGED localFs
            ELSE IF localFs[parent] = "file"
            THEN /\ attached' = att2
                 /\ Responds(Http(500, "Error transferring file", "FileExistsError"),
                             c3, q)
                 /\ UNCHANGED localFs
            ELSE /\ attached' = att2
                 /\ localFs' = [ localFs EXCEPT ![parent] = "dir" ]
                 /\ req' = q
                 /\ calls' = [ c3 EXCEPT !.pull = 1 ]
                 /\ tpc' = "pulling"
                 /\ loop' = "transfer"
                 /\ UNCHANGED << resp, remoteFs >>
    /\ UNCHANGED << lvars, pvars >>

\* device.sync.pull returns or raises; it can only succeed for a source
\* that exists, and a failed pull may leave a partial file behind.
PullReturns ==
    /\ tpc = "pulling"
    /\ \E ok \in BOOLEAN, written \in BOOLEAN :
         /\ ok => (written /\ req.src \in remoteFs)
         /\ localFs' = IF written THEN [ localFs EXCEPT ![req.dst] = "file" ] ELSE localFs
         /\ resp' = IF ok THEN Success
                    ELSE Http(500, "Error transferring file", "AdbError")
    /\ tpc' = "done"
    /\ loop' = "free"
    /\ UNCHANGED << attached, remoteFs, req, calls >>
    /\ UNCHANGED << lvars, pvars >>

\* The response has been sent; the handler keeps nothing of the request.
TransferReturn ==
    /\ tpc = "done"
    /\ tpc' = "idle"
    /\ req' = NoReq
    /\ resp' = NoResp
    /\ calls' = NoCalls
    /\ UNCHANGED << attached, localFs, remoteFs, loop >>
    /\ UNCHANGED << lvars, pvars >>

\* A device is plugged in or unplugged.
DeviceToggle ==
    /\ \E s \in Serials :
         attached' = IF s \in attached THEN attached \ { s } ELSE attached \cup { s }
    /\ UNCHANGED << localFs, remoteFs, loop, req, tpc, calls, resp >>
    /\ UNCHANGED << lvars, pvars >>

\* ----------------------------------------------- main.py, api/devices.py
Listeners == { "w1", "w2" }

\* What adb.device_list() does at this moment: it raises, or returns the
\* attached devices.
RECURSIVE AttachedDevices(_)
AttachedDevices(S) ==
    IF S = {} THEN <<>>
    ELSE LET s == CHOOSE x \in S : \A y \in S : ~StrLess(<< y >>, << x >>) IN
         << [ serial |-> s, prop_ok |-> TRUE, model |-> "Pixel",
              manufacturer |-> "Google", release |-> "14" ] >>
             \o AttachedDevices(S \ { s })

Enumeration(raises) ==
    [ raises |-> raises, devices |-> IF raises THEN <<>> ELSE AttachedDevices(attached) ]

\* The requests the clients send while listeners are connected: one valid
\* transfer in each direction.
LoadToRemote == { [ serial |-> "s1", src |-> "d/f", dst |-> "/sd/b" ] }
LoadToLocal == { [ serial |-> "s1", src |-> "/sd/a", dst |-> "n/g" ] }

NoMsg == [ type |-> "none" ]

DeviceList(devices) == [ type |-> "device_list", devices |-> devices ]

IdleTask == [ pc |-> "idle", devices |-> <<>>, sent |-> FALSE, waits |-> 0, enums |-> 0,
              seen |-> {} ]

\* The task has ended; its locals are gone.
ClosedTask == [ IdleTask EXCEPT !.pc = "closed" ]

NoDelivery == [ msg |-> NoMsg, first |-> FALSE, waits |-> 0, enums |-> 0, seen |-> {} ]

PresenceInit ==
    /\ active_connections = <<>>
    /\ ws = [ l \in Listeners |-> IdleTask ]
    /\ client = [ l \in Listeners |-> "none" ]
    /\ inbox = [ l \in Listeners |-> NoDelivery ]
    /\ devReq = "none"
    /\ devResp = <<>>

\* list.remove(x): the first occurrence is removed.
RemoveFirst(seq, x) ==
    LET at == { i \in 1..Len(seq) : seq[i] = x } IN
    IF at = {} THEN seq
    ELSE LET k == Nth(at, 1) IN SubSeq(seq, 1, k - 1) \o SubSeq(seq, k + 1, Len(seq))

\* A disconnect that drops the newest connection, whichever it is.
ManagerDropNewest(conns, l) == SubSeq(conns, 1, Len(conns) - 1)

\* ConnectionManager.disconnect(websocket)
ManagerDisconnect(conns, l) == RemoveFirst(conns, l)

\* The counters of interval waits and enumerations are capped for the
\* model's sake; the loop never exceeds one of each per emission.
Bump(n) == IF n < 2 THEN n + 1 ELSE n

\* The locals of the task after `devices = adb_service.get_devices()` and
\* with `await websocket.send_json(...)` started.
AfterEnumerate(t) ==
    [ t EXCEPT !.pc = "sending",
               !.devices = GetDevices(Enumeration(FALSE)),
               !.enums = Bump(t.enums),
               !.seen = attached ]

\* The loop body after the interval wait without a new enumeration.
AfterWakeStale(t) ==
    [ t EXCEPT !.pc = "sending", !.waits = Bump(t.waits) ]

\* The loop body: the interval wait is over, the devices are enumerated
\* again and the send is started.
AfterWake(t) == AfterEnumerate([ t EXCEPT !.waits = Bump(t.waits) ])

\* A peer opens a WebSocket to /ws: the endpoint task starts and awaits
\* websocket.accept().
WsConnect(l) ==
    /\ loop = "free"
    /\ ws[l].pc = "idle" /\ client[l] = "none"
    /\ client' = [ client EXCEPT ![l] = "open" ]
    /\ ws' = [ ws EXCEPT ![l].pc = "accepting" ]
    /\ UNCHANGED << active_connections, inbox, devReq, devResp >>
    /\ UNCHANGED << lvars, tvars >>

\* accept() returns and the socket is appended to the registry twice.
WsAcceptTwice(l) ==
    /\ loop = "free"
    /\ ws[l].pc = "accepting"
    /\ IF client[l] = "open"
       THEN /\ active_connections' = Append(Append(active_connections, l), l)
            /\ ws' = [ ws EXCEPT ![l] = AfterEnumerate(ws[l]) ]
       ELSE /\ ws' = [ ws EXCEPT ![l] = ClosedTask ]
            /\ UNCHANGED active_connections
    /\ UNCHANGED << client, inbox, devReq, devResp >>
    /\ UNCHANGED << lvars, tvars >>

\* accept() returns: manager.connect appends the socket, the endpoint
\* enumerates the devices and starts the first send.  If the peer is gone
\* accept() raises outside the try block and nothing is registered.
WsAccept(l) ==
    /\ loop = "free"
    /\ ws[l].pc = "accepting"
    /\ IF client[l] = "open"
       THEN /\ active_connections' = Append(active_connections, l)
            /\ ws' = [ ws EXCEPT ![l] = AfterEnumerate(ws[l]) ]
       ELSE /\ ws' = [ ws EXCEPT ![l] = ClosedTask ]
            /\ UNCHANGED active_connections
    /\ UNCHANGED << client, inbox, devReq, devResp >>
    /\ UNCHANGED << lvars, tvars >>

\* send_json returns: the message is with the peer and the task starts
\* its interval wait (asyncio.sleep(2)).
WsSent(l) ==
    /\ loop = "free"
    /\ ws[l].pc = "sending" /\ client[l] = "open"
    /\ inbox' = [ inbox EXCEPT ![l] =
                    [ msg |-> DeviceList(ws[l].devices),
                      first |-> ~ws[l].sent,
                      waits |-> ws[l].waits,
                      enums |-> ws[l].enums,
                      seen |-> ws[l].seen ] ]
    /\ ws' = [ ws EXCEPT ![l].pc = "sleeping", ![l].sent = TRUE,
                         ![l].waits = 0, ![l].enums = 0 ]
    /\ UNCHANGED << active_connections, client, devReq, devResp >>
    /\ UNCHANGED << lvars, tvars >>

\* send_json raises: WebSocketDisconnect when the peer is gone, or any
\* other exception; both handlers call manager.disconnect and the task ends.
WsSendFails(l) ==
    /\ loop = "free"
    /\ ws[l].pc = "sending"
    /\ active_connections' = ManagerDisconnect(active_connections, l)
    /\ ws' = [ ws EXCEPT ![l] = ClosedTask ]
    /\ inbox' = [ inbox EXCEPT ![l] = NoDelivery ]
    /\ UNCHANGED << client, devReq, devResp >>
    /\ UNCHANGED << lvars, tvars >>

\* asyncio.sleep(2) is over: the loop enumerates again and starts a send.
WsWake(l) ==
    /\ loop = "free"
    /\ ws[l].pc = "sleeping"
    /\ ws' = [ ws EXCEPT ![l] = AfterWake(ws[l]) ]
    /\ inbox' = [ inbox EXCEPT ![l] = NoDelivery ]
    /\ UNCHANGED << active_connections, client, devReq, devResp >>
    /\ UNCHANGED << lvars, tvars >>

\* The peer closes its end or goes away.
ClientClose(l) ==
    /\ client[l] = "open"
    /\ client' = [ client EXCEPT ![l] = "gone" ]
    /\ UNCHANGED << active_connections, ws, inbox, devReq, devResp >>
    /\ UNCHANGED << lvars, tvars >>

\* The ended task and its socket are dropped; a later connection is a new
\* socket object.
WsForget(l) ==
    /\ ws[l].pc = "closed"
    /\ l \notin { active_connections[i] : i \in 1..Len(active_connections) }
    /\ ws' = [ ws EXCEPT ![l] = IdleTask ]
    /\ client' = [ client EXCEPT ![l] = "none" ]
    /\ inbox' = [ inbox EXCEPT ![l] = NoDelivery ]
    /\ UNCHANGED << active_connections, devReq, devResp >>
    /\ UNCHANGED << lvars, tvars >>

\* GET /api/devices arrives at the server.
DevicesArrive ==
    /\ devReq = "none"
    /\ devReq' = "pending"
    /\ UNCHANGED << active_connections, ws, client, inbox, devResp >>
    /\ UNCHANGED << lvars, tvars >>

\* list_devices runs on the event loop and returns get_devices().
ListDevices ==
    /\ loop = "free"
    /\ devReq = "pending"
    /\ \E raises \in BOOLEAN : devResp' = GetDevices(Enumeration(raises))
    /\ devReq' = "served"
    /\ UNCHANGED << active_connections, ws, client, inbox >>
    /\ UNCHANGED << lvars, tvars >>

DevicesReturn ==
    /\ devReq = "served"
    /\ devReq' = "none"
    /\ devResp' = <<>>
    /\ UNCHANGED << active_connections, ws, client, inbox >>
    /\ UNCHANGED << lvars, tvars >>

vars == << lvars, tvars, pvars >>

Init == ListInit /\ TransferInit /\ PresenceInit

NextListing ==
    (CallListRemote \/ CallListLocal \/ CallGetDevices \/ ListReturn)
        /\ UNCHANGED << tvars, pvars >>

SpecListing == Init /\ [][NextListing]_vars

NextTransfer ==
    \/ TransferMacToAndroid(ToRemoteRequests)
    \/ PushReturns
    \/ TransferAndroidToMac(ToLocalRequests)
    \/ PullReturns
    \/ TransferReturn
    \/ DeviceToggle

SpecTransfer == Init /\ [][NextTransfer]_vars

\* A blocking push or pull that was started returns or raises, and the
\* handler then runs to its response.
FairTransfer ==
    /\ WF_vars(PushReturns)
    /\ WF_vars(PullReturns)
    /\ WF_vars(TransferReturn)

FairSpecTransfer == SpecTransfer /\ FairTransfer

NextPresence ==
    \/ \E l \in Listeners :
         \/ WsConnect(l)
         \/ WsAccept(l)
         \/ WsSent(l)
         \/ WsSendFails(l)
         \/ WsWake(l)
         \/ ClientClose(l)
         \/ WsForget(l)
    \/ DevicesArrive
    \/ ListDevices
    \/ DevicesReturn

NextLoad ==
    \/ TransferMacToAndroid(LoadToRemote)
    \/ PushReturns
    \/ TransferAndroidToMac(LoadToLocal)
    \/ PullReturns
    \/ TransferReturn
    \/ DeviceToggle

Next == NextLoad \/ NextPresence

Spec == Init /\ [][Next]_vars

\* One listener beside the transfer load: the behaviours in which the
\* lifecycle of a presence loop is followed to its end.
Watched == { "w1" }

NextWatched ==
    \/ NextLoad
    \/ \E l \in Watched :
         \/ WsConnect(l)
         \/ WsAccept(l)
         \/ WsSent(l)
         \/ WsSendFails(l)
         \/ WsWake(l)
         \/ ClientClose(l)
         \/ WsForget(l)

\* The event loop runs a task whose awaited call has completed as soon as
\* the running callback returns (the ready queue is first in, first out),
\* and a blocking push or pull that was started eventually returns or
\* raises.
Fairness ==
    /\ \A l \in Watched :
         /\ SF_vars(WsAccept(l))
         /\ SF_vars(WsSent(l) \/ WsSendFails(l))
         /\ SF_vars(WsWake(l))
    /\ WF_vars(PushReturns)
    /\ WF_vars(PullReturns)

FairSpec == Init /\ [][NextWatched]_vars /\ Fairness

\* All listeners, with devices coming and going and no other request: the
\* behaviours in which the presence loops run beside one another.
NextListeners ==
    \/ \E l \in Listeners :
         \/ WsConnect(l)
         \/ WsAccept(l)
         \/ WsSent(l)
         \/ WsSendFails(l)
         \/ WsWake(l)
         \/ ClientClose(l)
         \/ WsForget(l)
    \/ DeviceToggle

FairListeners ==
    \A l \in Listeners :
        /\ SF_vars(WsAccept(l))
        /\ SF_vars(WsSent(l) \/ WsSendFails(l))
        /\ SF_vars(WsWake(l))

FairSpecListeners == Init /\ [][NextListeners]_vars /\ FairListeners

\* ------------------------------------------------------ listing: claims
\* What a listing line states about its entry, read off the fields the
\* device printed (not off the parser): name, directory flag, size.
LineFacts(l) ==
    << Join(l.name, << " " >>),
       Head(l.perm) = "d",
       IF Head(l.perm) = "d" THEN 0 ELSE l.size >>

VisibleLine(l) == l.kind = "entry" /\ l.name \notin {NameDot, NameDotDot}

RECURSIVE ExpectedFacts(_)
ExpectedFacts(ls) ==
    IF ls = <<>> THEN <<>>
    ELSE (IF VisibleLine(Head(ls)) THEN << LineFacts(Head(ls)) >> ELSE <<>>)
             \o ExpectedFacts(Tail(ls))

EntryFacts(files) == [ i \in 1..Len(files) |-> << files[i].name, files[i].is_directory, files[i].size >> ]

Count(s, x) == Cardinality({ i \in 1..Len(s) : s[i] = x })

\* The two sequences hold the same elements the same number of times.
SameElements(s, t) ==
    /\ Len(s) = Len(t)
    /\ \A i \in 1..Len(s) : Count(s, s[i]) = Count(t, s[i])

RemoteOk == lcall.op = "remote" /\ lret.kind = "ok"

AllDates(d) ==
    \A i \in 1..Len(lcall.lines) : lcall.lines[i].kind = "entry" => lcall.lines[i].date = d

\* C4 as stated: when every entry line carries a date of three tokens
\* ("Jan 1 00:00"), the listing has exactly one entry per line that is not
\* the total line, blank, "." or "..", with the name, directory flag and
\* size the line states.
C4_ThreeTokenDate ==
    (RemoteOk /\ AllDates(DateMonth)) =>
        SameElements(EntryFacts(lret.files), ExpectedFacts(lcall.lines))

\* C4 amended: when every entry line carries a date of two tokens
\* ("2024-01-01 00:00"), the listing has exactly one entry per line that is
\* not the total line, blank, "." or "..", with the name (no date token in
\* it), the directory flag and the size (0 for a directory) the line states.
C4_TwoTokenDate ==
    (RemoteOk /\ AllDates(DateIso)) =>
        SameElements(EntryFacts(lret.files), ExpectedFacts(lcall.lines))

\* A listing of a directory line "Pics" and a "." line, both with two-token
\* dates, has produced the single entry "Pics".
C4_Witness ==
    /\ RemoteOk /\ AllDates(DateIso)
    /\ Len(lcall.lines) = 2
    /\ lcall.lines[1].kind = "entry" /\ lcall.lines[1].name = NameDot
    /\ lcall.lines[2].kind = "entry" /\ lcall.lines[2].name = NamePics
    /\ lcall.lines[2].perm = PermDir
    /\ Len(lret.files) = 1
    /\ lret.files[1].name = << "P", "i", "c", "s" >>

\* Directories precede files and each group ascends by lower-cased name.
Ordered(files) ==
    \A i, j \in 1..Len(files) :
        i < j =>
            /\ files[j].is_directory => files[i].is_directory
            /\ files[i].is_directory = files[j].is_directory
                   => ~StrLess(Lower(files[j].name), Lower(files[i].name))

\* The children a local listing must return: not hidden, stat succeeded.
Listable(items) ==
    { items[k].name : k \in { n \in 1..Len(items) :
                                items[n].stat_ok /\ Head(items[n].name) # "." } }

\* C10: every listing returned by the local and by the remote lister has
\* all directories before all files and each group in ascending
\* case-insensitive name order; a local listing holds no hidden entry, no
\* entry whose stat failed, and every other child exactly once.
C10_ListingOrdered ==
    (lcall.op \in { "local", "remote" } /\ lret.kind = "ok") =>
        /\ Ordered(lret.files)
        /\ lcall.op = "local" =>
               /\ \A i \in 1..Len(lret.files) : Head(lret.files[i].name) # "."
               /\ { lret.files[i].name : i \in 1..Len(lret.files) } = Listable(lcall.items)
               /\ Len(lret.files) = Cardinality(Listable(lcall.items))

\* A local listing of a file "a", a directory "B" and a hidden child has
\* returned the directory first although os.listdir gave the file first.
C10_Witness ==
    /\ lcall.op = "local" /\ lret.kind = "ok"
    /\ Len(lcall.items) = 3
    /\ lcall.items[1].name = << "a" >> /\ ~lcall.items[1].is_directory
    /\ lcall.items[2].name = << "B" >> /\ lcall.items[2].is_directory
    /\ lcall.items[3].name = << ".", "c" >>
    /\ Len(lret.files) = 2
    /\ lret.files[1].name = << "B" >>

\* C6: get_devices returns a list and never raises: the empty list when
\* the enumeration as a whole fails, else one descriptor per enumerated
\* device, in order, with its serial; a device whose property read fails
\* has model, manufacturer and version "Unknown", and every other device
\* its own properties.
C6_Enumerate ==
    lcall.op = "devices" =>
        /\ lret.kind = "ok"
        /\ lcall.enum.raises => lret.devices = <<>>
        /\ ~lcall.enum.raises =>
               /\ Len(lret.devices) = Len(lcall.enum.devices)
               /\ \A i \in 1..Len(lcall.enum.devices) :
                      LET d == lcall.enum.devices[i]
                          r == lret.devices[i]
                      IN /\ r.serial = d.serial
                         /\ ~d.prop_ok =>
                                /\ r.model = "Unknown"
                                /\ r.manufacturer = "Unknown"
                                /\ r.android_version = "Unknown"
                         /\ d.prop_ok =>
                                /\ r.manufacturer = d.manufacturer
                                /\ r.android_version = d.release
                                /\ d.model # "" => r.model = d.model

\* Two devices were enumerated, the property read of the first failed,
\* and both are in the result: placeholders first, "Pixel" second.
C6_Witness ==
    /\ lcall.op = "devices" /\ ~lcall.enum.raises
    /\ Len(lcall.enum.devices) = 2
    /\ ~lcall.enum.devices[1].prop_ok
    /\ lcall.enum.devices[2].prop_ok /\ lcall.enum.devices[2].model = "Pixel"
    /\ Len(lret.devices) = 2
    /\ lret.devices[1].model = "Unknown"
    /\ lret.devices[2].model = "Pixel"

\* ----------------------------------------------------- transfer: claims
Handled == req.dir # "none"

\* The request carries no serial: the field is absent or the empty string.
SerialNotGiven(q) == q.serial = NoSerial \/ q.serial = ""

FsUntouched == localFs = req.local0 /\ remoteFs = req.remote0

\* C1 as stated: in a to-local transfer with a serial, once the remote
\* existence test has printed that the source does not exist, the request
\* ends with the source-not-found response, pull is not called and nothing
\* is created locally.
C1_NoPullWithoutSource ==
    (Handled /\ req.dir = "toLocal" /\ ~SerialNotGiven(req)
        /\ req.shell_said = "not_exists") =>
        /\ tpc = "done"
        /\ resp.status = 404
        /\ calls.pull = 0
        /\ calls.makedirs = 0
        /\ localFs = req.local0

\* C2: a transfer request, in either direction, whose serial is absent or
\* empty ends at once with "Device serial is required"; no device is
\* resolved, no shell command, push or pull is issued, and neither
\* filesystem changes.
C2_MissingSerial ==
    (Handled /\ SerialNotGiven(req)) =>
        /\ tpc = "done"
        /\ resp = Http(400, "Device serial is required", "")
        /\ calls = NoCalls
        /\ FsUntouched

\* A to-local request with an empty serial for a source that exists on an
\* attached device has been refused.
C2_Witness ==
    /\ Handled /\ req.dir = "toLocal" /\ req.serial = ""
    /\ req.src_state = "file" /\ "s1" \in attached
    /\ tpc = "done" /\ resp.status = 400

\* C3: a to-remote transfer with a serial whose local source is a
\* directory ends with "Directory transfer not supported yet", and one
\* whose local source is missing with "Source file not found"; in both
\* cases no device is resolved, nothing is pushed and the remote
\* filesystem is unchanged.
C3_LocalSourceRejected ==
    (Handled /\ req.dir = "toRemote" /\ ~SerialNotGiven(req)
        /\ req.src_state # "file") =>
        /\ tpc = "done"
        /\ req.src_state = "dir"
               => resp = Http(400, "Directory transfer not supported yet", "")
        /\ req.src_state = "none" => resp = Http(404, "Source file not found", "")
        /\ calls = NoCalls
        /\ remoteFs = req.remote0

\* A to-remote request for the directory "d" to an attached device has
\* been refused.
C3_Witness ==
    /\ Handled /\ req.dir = "toRemote" /\ req.serial = "s1" /\ req.resolved
    /\ req.src = "d" /\ req.src_state = "dir"
    /\ tpc = "done" /\ resp.status = 400

FileExistsCalled == Handled /\ req.dir = "toLocal" /\ ~SerialNotGiven(req)

\* C5 as stated: file_exists returns true only when the existence test
\* printed "exists", false when it printed "not_exists" and false when the
\* device cannot be resolved; when the shell command itself fails the
\* request fails as a transfer error instead of seeing a boolean.
C5_ExistsFollowsMarker ==
    FileExistsCalled =>
        /\ req.exists_ret => req.shell_said = "exists"
        /\ req.shell_said = "not_exists" => ~req.exists_ret
        /\ ~req.resolved => ~req.exists_ret
        /\ req.shell_raised => (tpc = "done" /\ resp.status = 500)

\* The error kind the boundary reads off a failure response.
ReportedKind(r) ==
    CASE r.status = 400 /\ r.detail = "Device serial is required" -> "MissingDeviceSerial"
      [] r.status = 400 -> "DirectoryNotSupported"
      [] r.status = 404 -> "SourceNotFound"
      [] OTHER -> "TransferError"

\* Which of the five causes made the request fail, in the order the claim
\* lists them.
FailureCause(q, r) ==
    IF SerialNotGiven(q) THEN "MissingDeviceSerial"
    ELSE IF q.dir = "toRemote" /\ q.src_state = "none" THEN "SourceNotFound"
    ELSE IF q.dir = "toRemote" /\ q.src_state = "dir" THEN "DirectoryNotSupported"
    ELSE IF ~q.resolved \/ r.cause = "Device not found" THEN "DeviceNotFound"
    ELSE IF q.src_state = "none" THEN "SourceNotFound"
    ELSE "TransferError"

\* C9 as stated: a failed transfer reports the kind of its cause:
\* MissingDeviceSerial, SourceNotFound, DirectoryNotSupported,
\* DeviceNotFound or TransferError, so an unresolvable device is never
\* reported as SourceNotFound or as a transport failure.
C9_KindOfCause ==
    (Handled /\ tpc = "done" /\ resp.status # 200 /\ ~req.shell_raised
        /\ resp.cause \notin { "FileNotFoundError", "FileExistsError" }) =>
        ReportedKind(resp) = FailureCause(req, resp)

\* ----------------------------------------------------- presence: claims
Registered(l) == \E i \in 1..Len(active_connections) : active_connections[i] = l

Delivered(l) == inbox[l].msg # NoMsg

\* The message carries one descriptor per device attached when the task
\* enumerated, and no other.
CarriesEnumeration(l) ==
    /\ inbox[l].msg.type = "device_list"
    /\ Len(inbox[l].msg.devices) = Cardinality(inbox[l].seen)
    /\ { inbox[l].msg.devices[i].serial : i \in 1..Len(inbox[l].msg.devices) } = inbox[l].seen

LoopOrder(l) ==
    /\ Delivered(l) =>
           /\ Registered(l)
           /\ inbox[l].enums = 1
           /\ inbox[l].waits = IF inbox[l].first THEN 0 ELSE 1
           /\ CarriesEnumeration(l)
    /\ ws[l].pc = "closed" => ~Registered(l)

\* C7: for the watched listener the first device_list message is delivered with
\* no interval wait before it; every later one after exactly one interval
\* wait and one enumeration, whose result it carries; a task that has
\* ended is not registered and receives nothing; a waiting task goes on to
\* its next send, a send ends in a delivery or in the end of the task, and
\* a listener whose peer is gone is eventually deregistered.
C7_PresenceLoop ==
    /\ [](\A l \in Watched : LoopOrder(l))
    /\ \A l \in Watched :
         /\ (ws[l].pc = "sleeping") ~> (ws[l].pc = "sending")
         /\ (ws[l].pc = "sending") ~> (ws[l].pc \in { "sleeping", "closed" })
         /\ (client[l] = "gone" /\ Registered(l)) ~> ~Registered(l)

\* Listener w1 has received a later message, after one wait, that shows
\* the device unplugged since its first message.
C7_Witness ==
    /\ Delivered("w1") /\ ~inbox["w1"].first
    /\ inbox["w1"].waits = 1 /\ inbox["w1"].enums = 1
    /\ inbox["w1"].msg.devices = <<>>
    /\ client["w1"] = "open"

Streaming == tpc \in { "pushing", "pulling" }

\* C8 as stated: while a transfer is blocked in push or pull, a pending
\* device-listing request can be served and every listener whose interval
\* wait is over can enumerate and send.
C8_TransferDoesNotStall ==
    Streaming =>
        /\ devReq = "pending" => ENABLED ListDevices
        /\ \A l \in Listeners : ws[l].pc = "sleeping" => ENABLED WsWake(l)

\* ------------------------------------------------ remote listing: errors
\* C11: a remote listing whose device handle does not resolve fails as
\* device-not-found (404, no files) with no shell command issued; one whose
\* handle resolves and whose shell command fails ends in a listing error
\* (500, distinct from device-not-found) and returns no listing, empty or
\* partial.
C11_RemoteListingErrors ==
    lcall.op = "remote" =>
        /\ ~lcall.resolved =>
               /\ lret.http.status = 404
               /\ lret.http.detail = "Device not found"
               /\ ~lret.http.listed
               /\ lret.shells = 0
        /\ (lcall.resolved /\ lcall.raises) =>
               /\ lret.http.status = 500
               /\ lret.kind \notin { "ok", "ValueError" }
               /\ ~lret.http.listed
               /\ lret.shells = 1
        /\ lret.http.listed <=> (lcall.resolved /\ ~lcall.raises)

\* The handle resolved, the shell command raised and the handler answered
\* with the listing error.
C11_Witness ==
    /\ lcall.op = "remote" /\ lcall.resolved /\ lcall.raises
    /\ lret.http.status = 500 /\ lret.shells = 1

\* ------------------------------------------------- transfers: one pass
TransportCalls == calls.push + calls.pull

\* Every precondition the handler tests has passed for the request.
ChecksPassed ==
    /\ ~SerialNotGiven(req)
    /\ req.dir = "toRemote" => req.src_state = "file"
    /\ req.dir = "toLocal" => req.exists_ret

\* C12: a transfer request makes at most one push or pull call in all,
\* the one of its direction and only after every precondition test has
\* passed; a call that was started leads to the end of the request; a
\* request that has ended carries exactly one outcome, success or a
\* reported failure, and makes no further call.
C12_OnePass ==
    /\ [](TransportCalls <= 1)
    /\ [](TransportCalls = 1 =>
             /\ ChecksPassed
             /\ calls.push = 1 <=> req.dir = "toRemote"
             /\ calls.pull = 1 <=> req.dir = "toLocal")
    /\ [](tpc \in { "pushing", "pulling" } => (TransportCalls = 1 /\ resp = NoResp))
    /\ [](tpc = "done" => (resp = Success \/ resp.status \in { 400, 404, 500 }))
    /\ [][tpc = "done" =>
             \/ tpc' = "idle" /\ calls' = NoCalls
             \/ tpc' = "done" /\ calls' = calls /\ resp' = resp]_vars
    /\ (tpc \in { "pushing", "pulling" }) ~> (tpc = "done")
    /\ (tpc = "done") ~> (tpc = "idle")

\* A push was made once, it raised, and the request has ended with the
\* reported failure.
C12_Witness ==
    /\ tpc = "done" /\ req.dir = "toRemote"
    /\ calls.push = 1 /\ calls.pull = 0
    /\ resp.status = 500 /\ resp.cause = "AdbError"

\* ------------------------------------------------ listeners: independence
Other(l) == Listeners \ { l }

\* The step ends the loop of listener l: its task was running and is over.
LoopEnds(l) == ws[l].pc \in { "sending", "sleeping" } /\ ws'[l].pc = "closed"

\* C13: a step that ends one listener's loop (a failed send, a
\* disconnect) deregisters that listener and leaves every other listener's
\* task, registration and last message as they were; and whatever happens
\* to the others, a registered listener that waits goes on to its next
\* send, and its send ends in a delivery unless its own send fails.
C13_ListenersIndependent ==
    /\ [][\A l \in Listeners :
             LoopEnds(l) =>
                 /\ ~Registered(l)'
                 /\ \A m \in Other(l) :
                        /\ ws'[m] = ws[m]
                        /\ inbox'[m] = inbox[m]
                        /\ Registered(m)' = Registered(m)]_vars
    /\ [](\A m \in Listeners :
             ws[m].pc \in { "sending", "sleeping" } => Registered(m))
    /\ \A m \in Listeners :
         /\ (ws[m].pc = "sleeping") ~> (ws[m].pc = "sending")
         /\ (ws[m].pc = "sending") ~> (Delivered(m) \/ ws[m].pc = "closed")

\* Listener w1's loop has ended and it is deregistered, while w2 is still
\* registered and has received a later message after its own wait.
C13_Witness ==
    /\ ws["w1"].pc = "closed" /\ ~Registered("w1")
    /\ Registered("w2") /\ client["w2"] = "open"
    /\ Delivered("w2") /\ ~inbox["w2"].first /\ inbox["w2"].waits = 1

\* ------------------------------------------------- listeners: the registry
Occurrences(l) == Cardinality({ i \in 1..Len(active_connections) : active_connections[i] = l })

\* The task of listener l has been accepted and has not ended.
LoopRunning(l) == ws[l].pc \in { "sending", "sleeping" }

\* C14: the registry holds each listener at most once, and holds it
\* exactly while its loop has been accepted and has not ended; the registry
\* grows only by the listener whose accept returned and shrinks only by
\* the listener whose loop ends, which was registered and is removed once.
C14_RegistryInvariant ==
    /\ [](\A l \in Listeners :
             /\ Occurrences(l) <= 1
             /\ Occurrences(l) = 1 <=> LoopRunning(l))
    /\ [][\A l \in Listeners :
             /\ LoopEnds(l) =>
                    /\ Occurrences(l) = 1
                    /\ Occurrences(l)' = 0
                    /\ Len(active_connections') = Len(active_connections) - 1
             /\ Occurrences(l)' < Occurrences(l) => LoopEnds(l)
             /\ Occurrences(l)' > Occurrences(l) =>
                    /\ ws[l].pc = "accepting" /\ LoopRunning(l)'
                    /\ active_connections' = Append(active_connections, l)]_vars

\* Listener w1's task has ended and w1 is not in the registry, which
\* holds w2 alone, once, its loop running.
C14_Witness ==
    /\ active_connections = << "w2" >>
    /\ ws["w1"].pc = "closed" /\ client["w1"] = "gone"
    /\ ws["w2"].pc = "sleeping" /\ ws["w2"].sent

====
